---- MODULE Spec2Model ----
(***************************************************************************)
(* Model of Week1/minesweeper/minesweeper.py: the Sentence class and the   *)
(* MinesweeperAI knowledge base, driven by a ground-truth Minesweeper      *)
(* board.                                                                  *)
(*                                                                         *)
(* A board cell (row, col) is the 2-tuple <<row, col>>.  return_neighbors  *)
(* starts from set(cell), which is the set of the two integer coordinates  *)
(* of the cell; such an integer n is written as the 1-tuple <<n>>, so that *)
(* it is a value distinct from every board cell.  None is <<>>.            *)
(*                                                                         *)
(* add_knowledge is modelled in steps: the call itself (lines 203-224),    *)
(* then the recursive check_knowledge with an explicit stack of frames     *)
(* (one frame per active call, holding its deep copy and its position),    *)
(* then the inference loops.  Iteration over a Python set takes the        *)
(* elements in an order the program does not fix: each step takes any      *)
(* remaining element.                                                      *)
(*                                                                         *)
(* Spec is the game on the small boards; SpecAPI adds direct mark_mine and *)
(* mark_safe calls, SpecMoves the two move queries, SpecRerun a second     *)
(* fixpoint pass; SpecE2E and SpecPurge are two games on a 3 x 3 board.    *)
(***************************************************************************)
EXTENDS Integers, Sequences, FiniteSets, TLC

\* Largest board area (height * width) explored.
MaxCells == 4
\* Largest number of mines on the ground-truth board.
MaxMines == 2
\* Largest number of add_knowledge calls in one run.
MaxCalls == 4
\* Largest board area explored with direct mark_mine and mark_safe calls.
MaxCellsAPI == 2
\* Largest number of add_knowledge calls in a run with such direct calls.
MaxCallsAPI == 3
\* Largest number of add_knowledge calls in a run that asks for moves.
MaxCallsMoves == 2
\* Largest number of add_knowledge calls in a run that repeats the pass.
MaxCallsRerun == 2

VARIABLES
    height,      \* MinesweeperAI.height (= Minesweeper.height)
    width,       \* MinesweeperAI.width  (= Minesweeper.width)
    board,       \* Minesweeper.mines: the cells that truly hold a mine
    moves_made,  \* MinesweeperAI.moves_made
    mines,       \* MinesweeperAI.mines
    safes,       \* MinesweeperAI.safes
    knowledge,   \* MinesweeperAI.knowledge: list of sentences
    pc,          \* "idle", or the part of add_knowledge that is running
    stack,       \* active check_knowledge calls, outermost first
    inf,         \* position <<i, j>> of the two loops of inference
    ret,         \* what the last query returned; for a repeated pass, the
                 \* state it started from
    ncalls       \* number of add_knowledge calls made so far

vars == <<height, width, board, moves_made, mines, safes, knowledge,
          pc, stack, inf, ret, ncalls>>

None == <<>>

Abs(n) == IF n < 0 THEN -n ELSE n

\* All (row, col) pairs of an h x w board.
Cells(h, w) == {<<r, c>> : r \in 0..(h - 1), c \in 0..(w - 1)}

Dims == {d \in (1..MaxCells) \X (1..MaxCells) : d[1] * d[2] <= MaxCells}

---------------------------------------------------------------------------
(* Minesweeper: the ground truth *)

is_mine(cell) == cell \in board

nearby_mines(cell) ==
    Cardinality({m \in Cells(height, width) :
                    /\ m[1] \in (cell[1] - 1)..(cell[1] + 1)
                    /\ m[2] \in (cell[2] - 1)..(cell[2] + 1)
                    /\ m # cell
                    /\ m \in board})

---------------------------------------------------------------------------
(* Sentence *)

Sentence(cells, count) == [cells |-> cells, count |-> count]

\* A method's result: None, or a set of cells.
NoResult == [none |-> TRUE, cells |-> {}]
Result(cells) == [none |-> FALSE, cells |-> cells]
\* Python truth value of such a result: None and the empty set are false.
Truthy(r) == ~r.none /\ r.cells # {}

\* known_mines without its return statement.
known_mines_none(s) == NoResult

known_mines(s) ==
    IF s.count = Cardinality(s.cells) THEN Result(s.cells) ELSE NoResult

known_safes(s) ==
    IF s.count = 0 THEN Result(s.cells) ELSE NoResult

Sentence_mark_mine(s, cell) ==
    IF cell \in s.cells
    THEN [cells |-> s.cells \ {cell}, count |-> s.count - 1]
    ELSE s

\* Sentence.mark_safe that leaves the cell in the sentence.
Sentence_mark_safe_keeping(s, cell) == s

Sentence_mark_safe(s, cell) ==
    IF cell \in s.cells
    THEN [cells |-> s.cells \ {cell}, count |-> s.count]
    ELSE s

---------------------------------------------------------------------------
(* MinesweeperAI *)

\* The part of a MinesweeperAI that mark_mine and mark_safe work on.
AI == [mines |-> mines, safes |-> safes, knowledge |-> knowledge]

mark_mine(ai, cell) ==
    [mines     |-> ai.mines \cup {cell},
     safes     |-> ai.safes,
     knowledge |-> [k \in DOMAIN ai.knowledge |->
                        Sentence_mark_mine(ai.knowledge[k], cell)]]

\* mark_safe without `self.safes.add(cell)`.
mark_safe_sentences_only(ai, cell) ==
    [mines     |-> ai.mines,
     safes     |-> ai.safes,
     knowledge |-> [k \in DOMAIN ai.knowledge |->
                        Sentence_mark_safe(ai.knowledge[k], cell)]]

\* mark_safe that also withdraws the cell from mines.
mark_safe_revoking(ai, cell) ==
    [mines     |-> ai.mines \ {cell},
     safes     |-> ai.safes \cup {cell},
     knowledge |-> [k \in DOMAIN ai.knowledge |->
                        Sentence_mark_safe(ai.knowledge[k], cell)]]

mark_safe(ai, cell) ==
    [mines     |-> ai.mines,
     safes     |-> ai.safes \cup {cell},
     knowledge |-> [k \in DOMAIN ai.knowledge |->
                        Sentence_mark_safe(ai.knowledge[k], cell)]]

\* The assignment of a MinesweeperAI's three fields.
SetAI(ai) ==
    /\ mines' = ai.mines
    /\ safes' = ai.safes
    /\ knowledge' = ai.knowledge

return_neighbors(cell) ==
    {<<cell[1]>>, <<cell[2]>>} \cup
    {n \in Cells(height, width) :
        /\ Abs(cell[1] - n[1]) <= 1
        /\ Abs(cell[2] - n[2]) <= 1
        /\ n # cell}

\* list.remove(s): drops the first element equal to s; the ValueError of a
\* list without such an element is caught and leaves the list as it is.
RECURSIVE list_remove(_, _)
list_remove(K, s) ==
    IF K = <<>> THEN <<>>
    ELSE IF Head(K) = s THEN Tail(K)
    ELSE <<Head(K)>> \o list_remove(Tail(K), s)

\* A new check_knowledge call: its deep copy, and the loop at its start.
Frame(K) == [cpy |-> K, i |-> 1, kind |-> "scan", rem |-> {}]

Top == stack[Len(stack)]
SetTop(f) == [stack EXCEPT ![Len(stack)] = f]

Init ==
    /\ \E d \in Dims : height = d[1] /\ width = d[2]
    /\ board \in {b \in SUBSET Cells(height, width) : Cardinality(b) <= MaxMines}
    /\ moves_made = {}
    /\ mines = {}
    /\ safes = {}
    /\ knowledge = <<>>
    /\ pc = "idle"
    /\ stack = <<>>
    /\ inf = <<1, 1>>
    /\ ret = [op |-> "none", val |-> None]
    /\ ncalls = 0

\* add_knowledge, lines 208-224: the sentence built from the neighbours of
\* cell, appended unless it has no cells.  `cl not in self.mines or
\* self.safes` is (cl not in self.mines) or (self.safes is not empty).
new_sentence(ai, cell, count) ==
    LET nb        == return_neighbors(cell)
        cont      == count - Cardinality(nb \cap ai.mines)
        new_cells == {cl \in nb : cl \notin ai.mines \/ ai.safes # {}}
    IN  Sentence(new_cells, cont)

new_knowledge(ai, cell, count) ==
    IF Cardinality(new_sentence(ai, cell, count).cells) > 0
    THEN Append(ai.knowledge, new_sentence(ai, cell, count))
    ELSE ai.knowledge

\* add_knowledge(cell, count), lines 203-226: up to the call of
\* check_knowledge.  The board reports count = nearby_mines(cell) for a cell
\* that is not a mine.
add_knowledge(cell) ==
    /\ pc = "idle"
    /\ ~is_mine(cell)
    /\ LET count == nearby_mines(cell)
           ai1   == mark_safe(AI, cell)
           ai2   == [ai1 EXCEPT !.knowledge = new_knowledge(ai1, cell, count)]
       IN  /\ moves_made' = moves_made \cup {cell}
           /\ SetAI(ai2)
           /\ stack' = <<Frame(ai2.knowledge)>>
    /\ pc' = "check"
    /\ ncalls' = ncalls + 1
    /\ ret' = [op |-> "none", val |-> None]
    /\ UNCHANGED <<height, width, board, inf>>

\* check_knowledge, one iteration of `for sentence in knowledge_cpy` up to
\* the two `if`s: the purge of an empty sentence, then known_mines and
\* known_safes of the copy.
check_scan ==
    /\ pc = "check"
    /\ Top.kind = "scan"
    /\ Top.i <= Len(Top.cpy)
    /\ LET s == Top.cpy[Top.i]
       IN  /\ knowledge' = IF Cardinality(s.cells) = 0
                           THEN list_remove(knowledge, s)
                           ELSE knowledge
           /\ stack' = SetTop(
                IF Truthy(known_mines(s))
                THEN [Top EXCEPT !.kind = "mines", !.rem = known_mines(s).cells]
                ELSE IF Truthy(known_safes(s))
                THEN [Top EXCEPT !.kind = "safes", !.rem = known_safes(s).cells]
                ELSE [Top EXCEPT !.i = Top.i + 1])
    /\ UNCHANGED <<height, width, board, moves_made, mines, safes, pc, inf,
                   ret, ncalls>>

\* What the caller does when the recursive call returns: the next element of
\* the set, or the next sentence of the copy when the set is exhausted.
Continue(f, rest) ==
    IF rest = {} THEN [f EXCEPT !.kind = "scan", !.rem = {}, !.i = f.i + 1]
    ELSE [f EXCEPT !.rem = rest]

\* `for mn in mines: self.mark_mine(mn); self.check_knowledge()`
check_mark_mine ==
    /\ pc = "check"
    /\ Top.kind = "mines"
    /\ \E mn \in Top.rem :
         LET ai == mark_mine(AI, mn)
         IN  /\ SetAI(ai)
             /\ stack' = Append(SetTop(Continue(Top, Top.rem \ {mn})),
                                Frame(ai.knowledge))
    /\ UNCHANGED <<height, width, board, moves_made, pc, inf, ret, ncalls>>

\* `for sf in safes: self.mark_safe(sf); self.check_knowledge()`
check_mark_safe ==
    /\ pc = "check"
    /\ Top.kind = "safes"
    /\ \E sf \in Top.rem :
         LET ai == mark_safe(AI, sf)
         IN  /\ SetAI(ai)
             /\ stack' = Append(SetTop(Continue(Top, Top.rem \ {sf})),
                                Frame(ai.knowledge))
    /\ UNCHANGED <<height, width, board, moves_made, pc, inf, ret, ncalls>>

\* The loop over the copy is exhausted: check_knowledge returns, to its
\* caller check_knowledge or to add_knowledge, which goes on to inference.
check_return ==
    /\ pc = "check"
    /\ Top.kind = "scan"
    /\ Top.i > Len(Top.cpy)
    /\ stack' = SubSeq(stack, 1, Len(stack) - 1)
    /\ IF Len(stack) = 1
       THEN pc' = "inference" /\ inf' = <<1, 1>>
       ELSE UNCHANGED <<pc, inf>>
    /\ UNCHANGED <<height, width, board, moves_made, mines, safes, knowledge,
                   ret, ncalls>>

\* Marking every cell of a set, with no call in between: the marks of
\* different cells commute, so the order of the set does not show.
RECURSIVE mark_mines(_, _)
mark_mines(ai, S) ==
    IF S = {} THEN ai
    ELSE LET c == CHOOSE x \in S : TRUE
         IN  mark_mines(mark_mine(ai, c), S \ {c})

RECURSIVE mark_safes(_, _)
mark_safes(ai, S) ==
    IF S = {} THEN ai
    ELSE LET c == CHOOSE x \in S : TRUE
         IN  mark_safes(mark_safe(ai, c), S \ {c})

\* The sentence inference builds from sentence1 = K[i] and sentence2 = K[j].
inferred(K, i, j) == Sentence(K[j].cells \ K[i].cells, K[i].count)

\* The chained assignment `new_count = sentence2.count = sentence1.count`.
assign_count(K, i, j) == [K EXCEPT ![j].count = K[i].count]

\* inference: the body of the inner loop for sentence1 = knowledge[i] and
\* sentence2 = knowledge[j], then the step of the loops.
infer_pair ==
    /\ pc = "inference"
    /\ inf[1] <= Len(knowledge)
    /\ LET i == inf[1]
           j == inf[2]
           sub == knowledge[i].cells \subseteq knowledge[j].cells
           derived == inferred(knowledge, i, j)
           ai1 == [AI EXCEPT !.knowledge = assign_count(knowledge, i, j)]
           ms == IF Truthy(known_mines(derived))
                 THEN known_mines(derived).cells ELSE {}
           ss == IF Truthy(known_safes(derived))
                 THEN known_safes(derived).cells ELSE {}
       IN  /\ IF sub
              THEN SetAI(mark_safes(mark_mines(ai1, ms), ss))
              ELSE UNCHANGED <<mines, safes, knowledge>>
           /\ inf' = IF j < Len(knowledge) THEN <<i, j + 1>> ELSE <<i + 1, 1>>
    /\ UNCHANGED <<height, width, board, moves_made, pc, stack, ret, ncalls>>

\* Both loops of inference are exhausted: add_knowledge returns.
infer_return ==
    /\ pc = "inference"
    /\ inf[1] > Len(knowledge)
    /\ pc' = "idle"
    /\ inf' = <<1, 1>>
    /\ UNCHANGED <<height, width, board, moves_made, mines, safes, knowledge,
                   stack, ret, ncalls>>

\* make_safe_move: the first 2-tuple met in safes - moves_made, else None.
make_safe_move ==
    /\ pc = "idle"
    /\ LET cand == {c \in safes \ moves_made : Len(c) = 2}
       IN  \E v \in (IF cand # {} THEN cand ELSE {None}) :
             ret' = [op |-> "make_safe_move", val |-> v]
    /\ UNCHANGED <<height, width, board, moves_made, mines, safes, knowledge,
                   pc, stack, inf, ncalls>>

\* The steps inside a running add_knowledge call.
Step ==
    \/ check_scan
    \/ check_mark_mine
    \/ check_mark_safe
    \/ check_return
    \/ infer_pair
    \/ infer_return

\* The board is revealed cell by cell, any safe cell at any time.
Next ==
    \/ \E cell \in Cells(height, width) : ncalls < MaxCalls /\ add_knowledge(cell)
    \/ Step
    \/ make_safe_move

Spec == Init /\ [][Next]_vars

\* MinesweeperAI.mark_mine(cell) and mark_safe(cell) called directly, between
\* add_knowledge calls.
call_mark_mine(cell) ==
    /\ pc = "idle"
    /\ SetAI(mark_mine(AI, cell))
    /\ ret' = [op |-> "mark_mine", val |-> None]
    /\ UNCHANGED <<height, width, board, moves_made, pc, stack, inf, ncalls>>

call_mark_safe(cell) ==
    /\ pc = "idle"
    /\ SetAI(mark_safe(AI, cell))
    /\ ret' = [op |-> "mark_safe", val |-> None]
    /\ UNCHANGED <<height, width, board, moves_made, pc, stack, inf, ncalls>>

InitAPI == Init /\ height * width <= MaxCellsAPI

NextAPI ==
    \/ \E cell \in Cells(height, width) : ncalls < MaxCallsAPI /\ add_knowledge(cell)
    \/ Step
    \/ make_safe_move
    \/ \E cell \in Cells(height, width) : call_mark_mine(cell)
    \/ \E cell \in Cells(height, width) : call_mark_safe(cell)

\* The three modifying methods called in any order, on the smaller boards.
SpecAPI == InitAPI /\ [][NextAPI]_vars

\* make_random_move that leaves out the test `move not in self.mines`.
RECURSIVE random_moves_over_mines(_, _)
random_moves_over_mines(max_moves, taken) ==
    IF max_moves > 0
    THEN UNION {IF move \notin moves_made
                THEN {[val |-> move, samples |-> taken + 1]}
                ELSE random_moves_over_mines(max_moves - 1, taken + 1) :
                    move \in Cells(height, width)}
    ELSE {[val |-> None, samples |-> taken]}

\* The loop of make_random_move with max_moves iterations left and `taken`
\* samples drawn so far: every value it can return, with the number of
\* samples drawn up to the return.  randrange(height) and randrange(width)
\* give any cell of the board.
RECURSIVE random_moves(_, _)
random_moves(max_moves, taken) ==
    IF max_moves > 0
    THEN UNION {IF move \notin moves_made /\ move \notin mines
                THEN {[val |-> move, samples |-> taken + 1]}
                ELSE random_moves(max_moves - 1, taken + 1) :
                    move \in Cells(height, width)}
    ELSE {[val |-> None, samples |-> taken]}

make_random_move ==
    /\ pc = "idle"
    /\ \E r \in random_moves(width * height, 0) :
         ret' = [op |-> "make_random_move", val |-> r.val, samples |-> r.samples]
    /\ UNCHANGED <<height, width, board, moves_made, mines, safes, knowledge,
                   pc, stack, inf, ncalls>>

NextMoves ==
    \/ \E cell \in Cells(height, width) :
          ncalls < MaxCallsMoves /\ add_knowledge(cell)
    \/ Step
    \/ make_safe_move
    \/ make_random_move

\* A game in which the player asks for a safe or a random move between the
\* observations.
SpecMoves == Init /\ [][NextMoves]_vars

\* The fixpoint pass of add_knowledge (lines 226-228: check_knowledge, then
\* inference) run once more after add_knowledge has returned, with no new
\* observation.  ret keeps the state the pass starts from.
rerun ==
    /\ pc = "idle"
    /\ ncalls > 0
    /\ ret.op = "none"
    /\ stack' = <<Frame(knowledge)>>
    /\ pc' = "check"
    /\ ret' = [op |-> "rerun",
               val |-> [moves_made |-> moves_made, mines |-> mines,
                        safes |-> safes, knowledge |-> knowledge]]
    /\ UNCHANGED <<height, width, board, moves_made, mines, safes, knowledge,
                   inf, ncalls>>

NextRerun ==
    \/ \E cell \in Cells(height, width) :
          ncalls < MaxCallsRerun /\ add_knowledge(cell)
    \/ Step
    \/ rerun

\* A game in which the pass is repeated after an observation.
SpecRerun == Init /\ [][NextRerun]_vars

\* The scenario of a 3 x 3 board with its single mine at (0, 0): (1, 1) is
\* revealed first, then (2, 2), then the other safe cells row by row.
E2EOrder ==
    <<<<1, 1>>, <<2, 2>>, <<0, 1>>, <<0, 2>>, <<1, 0>>, <<1, 2>>, <<2, 0>>, <<2, 1>>>>

InitE2E ==
    /\ height = 3
    /\ width = 3
    /\ board = {<<0, 0>>}
    /\ moves_made = {}
    /\ mines = {}
    /\ safes = {}
    /\ knowledge = <<>>
    /\ pc = "idle"
    /\ stack = <<>>
    /\ inf = <<1, 1>>
    /\ ret = [op |-> "none", val |-> None]
    /\ ncalls = 0

NextE2E ==
    \/ ncalls < Len(E2EOrder) /\ add_knowledge(E2EOrder[ncalls + 1])
    \/ Step
    \/ make_safe_move

SpecE2E == InitE2E /\ [][NextE2E]_vars

\* A game on a 3 x 3 board with mines at (0, 0) and (1, 2), in which five of
\* the safe cells are revealed in this order and the first two of them are
\* then observed once more.
PurgeBoard == {<<0, 0>>, <<1, 2>>}
PurgeOrder ==
    <<<<0, 1>>, <<1, 0>>, <<1, 1>>, <<0, 2>>, <<2, 0>>, <<0, 1>>, <<1, 0>>>>

InitPurge ==
    /\ height = 3
    /\ width = 3
    /\ board = PurgeBoard
    /\ moves_made = {}
    /\ mines = {}
    /\ safes = {}
    /\ knowledge = <<>>
    /\ pc = "idle"
    /\ stack = <<>>
    /\ inf = <<1, 1>>
    /\ ret = [op |-> "none", val |-> None]
    /\ ncalls = 0

NextPurge ==
    \/ ncalls < Len(PurgeOrder) /\ add_knowledge(PurgeOrder[ncalls + 1])
    \/ Step
    \/ make_safe_move

SpecPurge == InitPurge /\ [][NextPurge]_vars

---------------------------------------------------------------------------
(* Properties *)

Idle == pc = "idle"

\* C1 (soundness): when no call is running, every board cell in mines is a
\* true mine and no cell in safes is a true mine.
C1_Soundness ==
    Idle => /\ (mines \cap Cells(height, width)) \subseteq board
            /\ safes \cap board = {}

\* C2 (sentence count bound): when no call is running, every sentence of
\* knowledge has 0 <= count <= |cells|.
C2_CountBound ==
    Idle => \A k \in DOMAIN knowledge :
              /\ 0 <= knowledge[k].count
              /\ knowledge[k].count <= Cardinality(knowledge[k].cells)

\* C7 (end to end, 3 x 3 board, mine at (0, 0)): after add_knowledge((1, 1),
\* 1) knowledge is the one sentence of the 8 neighbours of (1, 1) with count
\* 1, and only (1, 1) is marked; once every safe cell has been revealed,
\* (0, 0) is in mines.
C7_EndToEnd ==
    /\ (Idle /\ moves_made = {<<1, 1>>}) =>
          /\ knowledge = <<Sentence(Cells(3, 3) \ {<<1, 1>>}, 1)>>
          /\ safes = {<<1, 1>>}
          /\ mines = {}
    /\ (Idle /\ moves_made = Cells(3, 3) \ board) => <<0, 0>> \in mines

\* C3 (sentences hold only status-unknown cells): when no call is running,
\* no cell of any sentence of knowledge is in safes or in mines.
C3_OnlyUnknownCells ==
    Idle => \A k \in DOMAIN knowledge :
              knowledge[k].cells \cap (safes \cup mines) = {}

\* C4 (disjointness): when no call is running, no cell is both in safes and
\* in mines.
C4_Disjoint ==
    Idle => safes \cap mines = {}

\* C5 (subset rule): when inference meets distinct sentences A = knowledge[i]
\* and B = knowledge[j] with A.cells a subset of B.cells, it concludes about
\* B.cells - A.cells from the count B.count - A.count: with count 0 (as for
\* {A,B,C}=1 and {A,B}=1) the remaining cells are marked safe and none of them
\* is marked a mine; with count equal to their number they are marked mines.
SubsetPair ==
    /\ pc = "inference"
    /\ inf[1] <= Len(knowledge)
    /\ inf[1] # inf[2]
    /\ knowledge[inf[1]].cells \subseteq knowledge[inf[2]].cells
    /\ knowledge[inf[2]].cells \ knowledge[inf[1]].cells # {}

C5_SubsetRule ==
    [][SubsetPair =>
        LET A    == knowledge[inf[1]]
            B    == knowledge[inf[2]]
            rest == B.cells \ A.cells
            n    == B.count - A.count
        IN  /\ n = 0 => rest \subseteq safes' /\ (rest \cap mines') \subseteq mines
            /\ n = Cardinality(rest) => rest \subseteq mines']_vars

\* A check_knowledge call at its return: the loop over its copy is over.
AtReturn == pc = "check" /\ Top.kind = "scan" /\ Top.i > Len(Top.cpy)

\* The sentences that held count == |cells| > 0 when the call started.
AllMines(K) ==
    {k \in DOMAIN K : K[k].count = Cardinality(K[k].cells) /\ K[k].cells # {}}

\* C6 (trivial rule): when a check_knowledge call returns, every cell of
\* every sentence that had count == |cells| > 0 at the start of that call
\* (the call's deep copy) is in mines.
C6_TrivialRule ==
    AtReturn => \A k \in AllMines(Top.cpy) : Top.cpy[k].cells \subseteq mines

\* C6 witness: a check_knowledge call returns whose knowledge held such a
\* sentence of two or more cells when it started.
C6_Witness ==
    /\ AtReturn
    /\ \E k \in AllMines(Top.cpy) : Cardinality(Top.cpy[k].cells) >= 2

\* C10 (make_safe_move): a returned cell is in safes - moves_made, and None
\* is returned only if safes - moves_made is empty.
C10_SafeMove ==
    ret.op = "make_safe_move" =>
        /\ ret.val # None => ret.val \in safes \ moves_made
        /\ ret.val = None => safes \ moves_made = {}

\* C8 (monotonicity): no step removes a cell from safes or from mines.
C8_Monotonic == [][safes \subseteq safes' /\ mines \subseteq mines']_vars

\* C8 witness: both sets hold a cell, after a direct mark_mine or mark_safe
\* call and an add_knowledge call.
C8_Witness ==
    /\ Idle
    /\ ncalls > 0
    /\ ret.op \in {"mark_mine", "mark_safe"}
    /\ safes # {}
    /\ mines # {}

---------------------------------------------------------------------------
(* Termination of add_knowledge *)

\* What is left of one check_knowledge call: the sentences of its copy not
\* yet passed, then the cells of the current sentence not yet marked.
FrameWork(f) ==
    <<Len(f.cpy) - f.i + 1,
      IF f.kind # "scan" THEN Cardinality(f.rem)
      ELSE IF f.i <= Len(f.cpy) THEN Cardinality(f.cpy[f.i].cells) + 1
      ELSE 0>>

\* Lexicographic order of the pairs FrameWork gives.
PairLess(a, b) == a[1] < b[1] \/ (a[1] = b[1] /\ a[2] < b[2])

RECURSIVE StackLess(_, _, _)
\* Stack s comes before stack t in the lexicographic order of the work of
\* their frames from the k-th on, outermost first; a stack comes before
\* every stack it is a proper prefix of.
StackLess(s, t, k) ==
    IF k > Len(t) THEN FALSE
    ELSE IF k > Len(s) THEN TRUE
    ELSE IF FrameWork(s[k]) # FrameWork(t[k])
    THEN PairLess(FrameWork(s[k]), FrameWork(t[k]))
    ELSE StackLess(s, t, k + 1)

\* The pairs (sentence1, sentence2) the loops of inference have yet to take.
InferWork ==
    IF inf[1] > Len(knowledge) THEN 0
    ELSE (Len(knowledge) - inf[1]) * Len(knowledge) + (Len(knowledge) - inf[2] + 1)

\* add_knowledge runs check_knowledge, then inference, then returns.
Phase == IF pc = "check" THEN 2 ELSE IF pc = "inference" THEN 1 ELSE 0

\* A step brings the call nearer to its end: into a later phase, or on in
\* the same phase with less work left.
Decreases ==
    \/ Phase' < Phase
    \/ Phase' = Phase /\ pc = "check" /\ StackLess(stack', stack, 1)
    \/ Phase' = Phase /\ pc = "inference" /\ InferWork' < InferWork

RECURSIVE TotalCells(_)
TotalCells(K) ==
    IF K = <<>> THEN 0 ELSE Cardinality(Head(K).cells) + TotalCells(Tail(K))

\* C9 (termination): a running add_knowledge call always has a next step,
\* every step of it brings it nearer to its end (Decreases), and the
\* recursion of check_knowledge is never deeper than the number of cells the
\* sentences held when the outermost call started, plus one; so the call
\* returns.
C9_Terminates ==
    /\ [](~Idle => ENABLED Step)
    /\ [](pc = "check" => Len(stack) <= TotalCells(stack[1].cpy) + 1)
    /\ [][~Idle => Decreases]_vars

\* C9 witness: a check_knowledge call four calls deep in the recursion
\* returns, during a call on a knowledge base of two or more sentences.
C9_Witness ==
    /\ AtReturn
    /\ Len(stack) >= 4
    /\ Len(stack[1].cpy) >= 2
    /\ ncalls >= 2

---------------------------------------------------------------------------
(* The neighbours of a cell and the sentence built from them *)

\* The in-bounds cells at Chebyshev distance 1 from cell.
Chebyshev(cell) ==
    {n \in Cells(height, width) :
        /\ n # cell
        /\ Abs(cell[1] - n[1]) <= 1
        /\ Abs(cell[2] - n[2]) <= 1}

\* C12 (return_neighbors): for every cell of the board, return_neighbors(cell)
\* is exactly the set of in-bounds cells at Chebyshev distance 1 from cell:
\* at most 8 members, each a (row, col) pair of the board, cell not among
\* them.
C12_Neighbors ==
    \A cell \in Cells(height, width) :
        /\ return_neighbors(cell) = Chebyshev(cell)
        /\ Cardinality(return_neighbors(cell)) <= 8
        /\ return_neighbors(cell) \subseteq Cells(height, width)
        /\ cell \notin return_neighbors(cell)

\* A sentence whose count is outside 0..|cells|.
Contradictory(s) == s.count < 0 \/ s.count > Cardinality(s.cells)

\* C14 (contradictory input is surfaced): once a sentence of knowledge has
\* count < 0 or count > |cells| during an add_knowledge call, the call ends
\* there: its next step is its return, and no further cell is marked and no
\* sentence is changed.
C14_Surfaced ==
    [][(~Idle /\ \E k \in DOMAIN knowledge : Contradictory(knowledge[k])) =>
          /\ pc' = "idle"
          /\ UNCHANGED <<mines, safes, knowledge>>]_vars

\* The sentence C15 states for add_knowledge(cell, count): the neighbours of
\* cell that are in neither safes nor mines once cell itself is marked safe,
\* with the count less the neighbours already in mines.
unknown_sentence(cell) ==
    LET nb == return_neighbors(cell)
    IN  Sentence({cl \in nb : cl \notin safes \cup {cell} /\ cl \notin mines},
                 nearby_mines(cell) - Cardinality(nb \cap mines))

\* C15 (new-sentence construction): add_knowledge(cell, count) appends to
\* the knowledge it has after marking cell safe exactly the sentence
\* unknown_sentence(cell), and appends nothing if that has no cells.
C15_NewSentence ==
    [][\A cell \in Cells(height, width) :
          add_knowledge(cell) =>
             knowledge' =
                 IF unknown_sentence(cell).cells # {}
                 THEN Append(mark_safe(AI, cell).knowledge,
                             unknown_sentence(cell))
                 ELSE mark_safe(AI, cell).knowledge]_vars

\* C16 (full fixpoint at return): when no call is running, no sentence of
\* knowledge with a non-empty cell set has count 0 or count equal to the
\* number of its cells.
C16_Fixpoint ==
    Idle => \A k \in DOMAIN knowledge :
              knowledge[k].cells # {} =>
                 /\ knowledge[k].count # 0
                 /\ knowledge[k].count # Cardinality(knowledge[k].cells)

\* C17 (empty sentences are purged): when no call is running, no sentence
\* of knowledge has an empty cell set.
C17_NoEmpty ==
    Idle => \A k \in DOMAIN knowledge : knowledge[k].cells # {}

\* A sentence equal to s is in the list K.
Holds(K, s) == \E k \in DOMAIN K : K[k] = s

\* C18 (derived sentences are retained): when inference meets distinct
\* sentences A and B with A.cells a proper subset of B.cells, knowledge then
\* holds the sentence (B.cells - A.cells, B.count - A.count), as it did before
\* or as a new one; and when no call is running no sentence is in knowledge
\* twice.
C18_Retained ==
    /\ [][SubsetPair =>
            LET A == knowledge[inf[1]]
                B == knowledge[inf[2]]
                d == Sentence(B.cells \ A.cells, B.count - A.count)
            IN  Holds(knowledge, d) \/ Holds(knowledge', d)]_vars
    /\ [](Idle => \A k, l \in DOMAIN knowledge :
                     knowledge[k] = knowledge[l] => k = l)

\* C19 (frame of a sentence): in a step of a running call that removes no
\* sentence, a sentence only loses cells; its count stays as it is when it
\* loses no cell and when a cell is marked safe, and goes down by exactly 1
\* when one of its cells is marked a mine; so inference leaves the count of
\* both sentences of a pair as it was.
C19_SentenceFrame ==
    [][(~Idle /\ Len(knowledge') = Len(knowledge)) =>
          \A k \in DOMAIN knowledge :
             LET gone == knowledge[k].cells \ knowledge'[k].cells
             IN  /\ knowledge'[k].cells \subseteq knowledge[k].cells
                 /\ gone = {} => knowledge'[k].count = knowledge[k].count
                 /\ (pc = "check" /\ Top.kind = "safes") =>
                        knowledge'[k].count = knowledge[k].count
                 /\ (pc = "check" /\ Top.kind = "mines") =>
                        /\ Cardinality(gone) <= 1
                        /\ knowledge'[k].count =
                               knowledge[k].count - Cardinality(gone)]_vars

---------------------------------------------------------------------------
(* The moves offered to the player *)

\* C11 (make_random_move): a returned cell is on the board and in neither
\* moves_made nor mines; nothing is returned when every cell of the board is
\* in moves_made or mines; and at most height * width samples are drawn.
C11_RandomMove ==
    ret.op = "make_random_move" =>
        /\ ret.val # None =>
              /\ ret.val \in Cells(height, width)
              /\ ret.val \notin moves_made
              /\ ret.val \notin mines
        /\ Cells(height, width) \subseteq moves_made \cup mines =>
              ret.val = None
        /\ ret.samples <= height * width

\* C11 witness: on a board of two or more cells, make_random_move returned a
\* cell after it had drawn a cell it must not return.
C11_Witness ==
    /\ ret.op = "make_random_move"
    /\ ret.val # None
    /\ ret.samples >= 2
    /\ mines \cap Cells(height, width) # {}
    /\ moves_made # {}

\* C20 (every revealed cell is a known safe): moves_made is a subset of
\* safes in every state, and neither make_safe_move nor make_random_move
\* returns a cell of moves_made.
C20_MovesAreSafes ==
    /\ moves_made \subseteq safes
    /\ (ret.op \in {"make_safe_move", "make_random_move"} /\ ret.val # None) =>
          ret.val \notin moves_made

\* C20 witness: make_safe_move returned a cell after two cells were
\* revealed.
C20_Witness ==
    /\ ret.op = "make_safe_move"
    /\ ret.val # None
    /\ Cardinality(moves_made) >= 2

\* C13 (idempotence of inference): when the fixpoint pass, run again after
\* add_knowledge has returned, comes to its end, safes, mines, moves_made and
\* every sentence of knowledge are as they were when it started.
C13_Idempotent ==
    (Idle /\ ret.op = "rerun") =>
        ret.val = [moves_made |-> moves_made, mines |-> mines,
                   safes |-> safes, knowledge |-> knowledge]

====
